---- MODULE Spec2Model ----
(***************************************************************************)
(* Text-classification model definitions of src/src/model.py (fastText,    *)
(* LSTM, LSTM_Att, TextCNN, DPCNN, TextRCNN, BERT).                        *)
(*                                                                         *)
(* Tensors are modelled by what the module's code can observe of them:     *)
(*   - their shape (a sequence of dimension sizes), for forward;           *)
(*   - the storage a parameter tensor refers to and an abstract value of   *)
(*     that storage, for construction, init_weight and in-place updates.   *)
(* The framework's layers are modelled by their shape rules.               *)
(***************************************************************************)
EXTENDS Integers, Sequences, FiniteSets, TLC

(* ------------------------------ bounds --------------------------------- *)
MaxModels == 2      \* model instances constructed in one process
MaxBatch == 2       \* batch sizes 1..MaxBatch
MaxLen == 7         \* sequence lengths 1..MaxLen
MaxPad == 2         \* padding_len 1..MaxPad
MaxLayer == 2       \* args['layer'] 0..MaxLayer
EmbWidth == 2       \* columns of the pretrained embedding matrix
ClassNum == 3       \* len(class_list)
BertHidden == 3     \* hidden size of the pretrained transformer
BertMaxPos == 6     \* position embeddings of the pretrained transformer
NumLayers == 1      \* args['num_layers']

Classes == {"fastText", "LSTM", "LSTM_Att", "TextCNN", "DPCNN", "TextRCNN", "BERT"}
EmbLens == (EmbWidth - 1)..(EmbWidth + 1)
PadLens == 1..MaxPad
Layers == 0..MaxLayer
HiddenSet == {2}
ChannelSet == {2}
KernelLists == {<<1>>, <<2, 3>>, <<3, 4, 5>>}

(* ------------------------- tensor-op results --------------------------- *)
\* An operation of the framework either returns a tensor (its shape) or
\* raises one of the framework's exceptions.
Okay(s) == [ok |-> TRUE, shape |-> s, err |-> "none"]
Raise(e) == [ok |-> FALSE, shape |-> <<>>, err |-> e]
FrameworkErrors == {"RuntimeError", "IndexError"}

Last(s) == s[Len(s)]
ButLast(s) == SubSeq(s, 1, Len(s) - 1)

\* nn.Embedding: (B, L) token ids -> (B, L, W); an id outside the table raises.
Embedding(texts) ==
    IF ~texts.inVocab THEN Raise("IndexError")
    ELSE Okay(texts.shape \o <<EmbWidth>>)

\* torch.transpose(x, 1, 2) (0-based dimensions)
Transpose12(s) ==
    IF Len(s) < 3 THEN Raise("IndexError")
    ELSE Okay([i \in 1..Len(s) |-> IF i = 2 THEN s[3] ELSE IF i = 3 THEN s[2] ELSE s[i]])

\* variant: ceil_mode=True
PoolOut_ceil(l, k, stride) == ((l - k + stride - 1) \div stride) + 1

\* output length of a pooling window: floor((l - k) / stride) + 1
PoolOut(l, k, stride) == ((l - k) \div stride) + 1

\* variant: a window that slides by one position
AvgPool1d_stride1(k, s) ==
    IF Len(s) # 3 \/ k < 1 THEN Raise("RuntimeError")
    ELSE IF s[3] < k THEN Raise("RuntimeError")
    ELSE Okay(<<s[1], s[2], PoolOut(s[3], k, 1)>>)

\* nn.AvgPool1d(k): stride defaults to the kernel size
AvgPool1d(k, s) ==
    IF Len(s) # 3 \/ k < 1 THEN Raise("RuntimeError")
    ELSE IF s[3] < k THEN Raise("RuntimeError")
    ELSE Okay(<<s[1], s[2], PoolOut(s[3], k, k)>>)

\* nn.MaxPool1d(k, stride)
MaxPool1d(k, stride, s) ==
    IF Len(s) # 3 \/ k < 1 THEN Raise("RuntimeError")
    ELSE IF s[3] < k THEN Raise("RuntimeError")
    ELSE Okay(<<s[1], s[2], PoolOut(s[3], k, stride)>>)

\* Tensor.squeeze(d): drops dimension d when its size is 1
Squeeze(d, s) ==
    IF d + 1 > Len(s) THEN Raise("IndexError")
    ELSE IF s[d + 1] = 1
         THEN Okay([i \in 1..(Len(s) - 1) |-> IF i < d + 1 THEN s[i] ELSE s[i + 1]])
         ELSE Okay(s)

\* Tensor.unsqueeze(1)
Unsqueeze1(s) ==
    IF Len(s) < 1 THEN Raise("IndexError")
    ELSE Okay(<<s[1], 1>> \o SubSeq(s, 2, Len(s)))

\* nn.Linear(in, out): acts on the last dimension
Linear(in, out, s) ==
    IF Len(s) < 1 THEN Raise("RuntimeError")
    ELSE IF Last(s) # in THEN Raise("RuntimeError")
    ELSE Okay(ButLast(s) \o <<out>>)

\* nn.LSTM(input_size, hidden, bidirectional=True, batch_first=True): output
LSTMLayer(input_size, hidden, s) ==
    IF Len(s) # 3 THEN Raise("RuntimeError")
    ELSE IF s[3] # input_size \/ s[2] < 1 THEN Raise("RuntimeError")
    ELSE Okay(<<s[1], s[2], 2 * hidden>>)

\* x[:, -1, :]
SelectLast(s) ==
    IF Len(s) # 3 \/ s[2] < 1 THEN Raise("IndexError")
    ELSE Okay(<<s[1], s[3]>>)

\* a reduction over dimension 1 (torch.sum(x, dim=1), torch.max(x, dim=1))
ReduceDim1(s) ==
    IF Len(s) < 2 THEN Raise("IndexError")
    ELSE Okay(<<s[1]>> \o SubSeq(s, 3, Len(s)))

\* nn.Conv2d(1, oc, (kh, kw), padding=(ph, 0)) on (B, 1, H, W)
Conv2d(oc, kh, kw, ph, s) ==
    IF Len(s) # 4 THEN Raise("RuntimeError")
    ELSE IF s[2] # 1 \/ s[3] + 2 * ph < kh \/ s[4] < kw THEN Raise("RuntimeError")
    ELSE Okay(<<s[1], oc, s[3] + 2 * ph - kh + 1, s[4] - kw + 1>>)

\* nn.Conv1d(ic, oc, k, padding=p) on (B, ic, l)
Conv1d(ic, oc, k, p, s) ==
    IF Len(s) # 3 THEN Raise("RuntimeError")
    ELSE IF s[2] # ic \/ s[3] + 2 * p < k THEN Raise("RuntimeError")
    ELSE Okay(<<s[1], oc, s[3] + 2 * p - k + 1>>)

\* element-wise operations with broadcasting (px + x, outputs * weights)
Broadcastable(a, b) ==
    /\ Len(a) = Len(b)
    /\ \A i \in 1..Len(a) : a[i] = b[i] \/ a[i] = 1 \/ b[i] = 1
Elementwise(a, b) ==
    IF ~Broadcastable(a, b) THEN Raise("RuntimeError")
    ELSE Okay([i \in 1..Len(a) |-> IF a[i] = 1 THEN b[i] ELSE a[i]])

\* torch.cat(xs, 1) of 2-D tensors; torch.cat((a, b), 2) of 3-D tensors
RECURSIVE SumDim(_, _)
SumDim(xs, d) == IF xs = <<>> THEN 0 ELSE xs[1][d] + SumDim(Tail(xs), d)
Cat(xs, d) ==
    IF xs = <<>> THEN Raise("RuntimeError")
    ELSE IF \E i \in 1..Len(xs) :
              \/ Len(xs[i]) # Len(xs[1]) \/ d + 1 > Len(xs[i])
              \/ \E j \in 1..Len(xs[1]) : j # d + 1 /\ xs[i][j] # xs[1][j]
         THEN Raise("RuntimeError")
    ELSE Okay([j \in 1..Len(xs[1]) |-> IF j = d + 1 THEN SumDim(xs, j) ELSE xs[1][j]])

(* ------------------------------ forward -------------------------------- *)
\* F.max_pool1d(x, x.size(2)): one window over the whole last dimension
GlobalMaxPool1d(s) ==
    IF Len(s) < 3 THEN Raise("IndexError") ELSE MaxPool1d(s[3], s[3], s)

\* The running state of one forward call: its local tensors (x the current
\* one, saved a second one it keeps, outs a list it builds), or the exception
\* a call raised, and the calls made so far.
Start(texts) ==
    [ok |-> TRUE, x |-> texts.shape, saved |-> <<>>, outs |-> <<>>,
     err |-> "none", calls |-> <<>>]

\* variant: forward wraps the exception in one of its own
Uncaught_translated(r) == "ModelError"

\* forward has no try/except: the exception of a call that raises is the
\* exception the caller of forward gets
Uncaught(r) == r.err

\* the state after a call with arguments args that gave r; once a call has
\* raised, nothing after it runs
After(prev, layer, args, r) ==
    IF prev.ok
    THEN [prev EXCEPT !.ok = r.ok, !.x = r.shape,
                      !.err = IF r.ok THEN "none" ELSE Uncaught(r),
                      !.calls = Append(prev.calls,
                                       [layer |-> layer, args |-> args, out |-> r])]
    ELSE prev

\* saved = x: forward keeps the current tensor under a second name
Save(prev) == IF prev.ok THEN [prev EXCEPT !.saved = prev.x] ELSE prev
\* outs.append(x)
Collect(prev) == IF prev.ok THEN [prev EXCEPT !.outs = Append(prev.outs, prev.x)] ELSE prev

\* what the caller of forward gets
Result(st) == [ok |-> st.ok, x |-> st.x, err |-> st.err, calls |-> st.calls]

\* the statements of the forward methods, each one call on the local tensors
CallEmbedding(texts) ==
    After(Start(texts), "embedding", <<texts.shape>>, Embedding(texts))
CallTranspose(prev) == After(prev, "transpose", <<prev.x>>, Transpose12(prev.x))
CallAvg(self, prev) == After(prev, "avg", <<prev.x>>, AvgPool1d(self.padding_len, prev.x))
CallSqueeze(prev, d) == After(prev, "squeeze", <<prev.x>>, Squeeze(d, prev.x))
CallFc(prev, in) == After(prev, "fc", <<prev.x>>, Linear(in, ClassNum, prev.x))
CallLSTM(self, prev) ==
    After(prev, "lstm", <<prev.x>>, LSTMLayer(self.embedding_len, self.hidden, prev.x))
CallSelectLast(prev) == After(prev, "select_last", <<prev.x>>, SelectLast(prev.x))
CallReduce(prev, layer) == After(prev, layer, <<prev.x>>, ReduceDim1(prev.x))
CallUnsqueeze(prev) == After(prev, "unsqueeze", <<prev.x>>, Unsqueeze1(prev.x))
CallConv(self, prev, ks) ==
    After(prev, "conv", <<prev.saved>>,
          Conv2d(self.out_channels, ks, self.embedding_len, 0, prev.saved))
CallGlobalMaxPool(prev) == After(prev, "max_pool1d", <<prev.x>>, GlobalMaxPool1d(prev.x))
CallCatOuts(prev) == After(prev, "cat", prev.outs, Cat(prev.outs, 1))
\* dropout, relu: the shape stays
CallSame(prev, layer) == After(prev, layer, <<prev.x>>, Okay(prev.x))
CallConvRegion(self, prev) ==
    After(prev, "conv_region", <<prev.x>>,
          Conv2d(self.out_channels, 3, self.embedding_len, 1, prev.x))
CallMaxPool(prev) == After(prev, "max_pool", <<prev.x>>, MaxPool1d(3, 2, prev.x))
\* x = px + x, px being the saved tensor
CallAdd(prev) == After(prev, "add", <<prev.saved, prev.x>>, Elementwise(prev.saved, prev.x))
\* torch.cat((states, embedding), 2), embedding being the saved tensor
CallCatStates(prev) ==
    After(prev, "cat", <<prev.x, prev.saved>>, Cat(<<prev.x, prev.saved>>, 2))

\* fastText.forward
fastText_forward(self, texts) ==
    CallFc(CallSqueeze(CallAvg(self, CallTranspose(CallEmbedding(texts))), 2),
           self.embedding_len)

\* LSTM.forward
LSTM_forward(self, texts) ==
    CallFc(CallSelectLast(CallLSTM(self, CallEmbedding(texts))), self.hidden * 2)

\* SelfAttention.forward, as one call of the attention layer
SelfAttention(hidden_dim, s) ==
    LET p1 == Linear(hidden_dim, 64, s)
        p2 == IF p1.ok THEN Linear(64, 1, p1.shape) ELSE p1
    IN IF p2.ok THEN Elementwise(s, p2.shape) ELSE p2

CallAttention(self, prev) ==
    After(prev, "attention", <<prev.x>>, SelfAttention(self.hidden * 2, prev.x))

\* LSTM_Att.forward
LSTM_Att_forward(self, texts) ==
    CallFc(CallReduce(CallAttention(self, CallLSTM(self, CallEmbedding(texts))), "sum"),
           self.hidden * 2)

\* TextCNN.conv_and_pool on the saved tensor (the unsqueezed embedding)
conv_and_pool(self, prev, ks) ==
    CallSqueeze(CallGlobalMaxPool(CallSqueeze(CallConv(self, prev, ks), 3)), 2)

\* the list comprehension of TextCNN.forward: one conv_and_pool per kernel
RECURSIVE TextCNN_convs(_, _, _)
TextCNN_convs(self, prev, i) ==
    IF i > Len(self.kernal_size) \/ ~prev.ok THEN prev
    ELSE TextCNN_convs(self, Collect(conv_and_pool(self, prev, self.kernal_size[i])), i + 1)

\* variant: dropout applied to batches of more than one text only
CallDropout_batched(prev) ==
    IF prev.ok /\ prev.x[1] = 1 THEN prev ELSE CallSame(prev, "dropout")

\* x = self.dropout(x)
CallDropout(prev) == CallSame(prev, "dropout")

\* TextCNN.forward
TextCNN_forward(self, texts) ==
    CallFc(CallDropout(CallCatOuts(
               TextCNN_convs(self, Save(CallUnsqueeze(CallEmbedding(texts))), 1))),
           self.out_channels * Len(self.kernal_size))

\* variant: the convolutions of conv2 without padding
conv2_nopad(self, s) ==
    LET c1 == Conv1d(self.out_channels, self.out_channels, 3, 0, s)
    IN IF c1.ok THEN Conv1d(self.out_channels, self.out_channels, 3, 0, c1.shape) ELSE c1

\* DPCNN.conv2: Sequential(ReLU, Conv1d(oc, oc, 3, padding=1), ReLU, Conv1d(...))
conv2(self, s) ==
    LET c1 == Conv1d(self.out_channels, self.out_channels, 3, 1, s)
    IN IF c1.ok THEN Conv1d(self.out_channels, self.out_channels, 3, 1, c1.shape) ELSE c1

CallConv2(self, prev) == After(prev, "conv2", <<prev.x>>, conv2(self, prev.x))

\* one pass of the loop body: px = max_pool(x); x = conv2(px); x = px + x
DPCNN_body(self, prev) == CallAdd(CallConv2(self, Save(CallMaxPool(prev))))

\* for _ in range(self.args['layer']): n iterations left
RECURSIVE DPCNN_loop(_, _, _)
DPCNN_loop(self, prev, n) ==
    IF n <= 0 \/ ~prev.ok THEN prev
    ELSE DPCNN_loop(self, DPCNN_body(self, prev), n - 1)

\* the statements of DPCNN.forward before the loop
DPCNN_head(self, texts) ==
    CallAdd(CallConv2(self,
        Save(CallSqueeze(CallConvRegion(self, CallUnsqueeze(CallEmbedding(texts))), 3))))

\* DPCNN.forward
DPCNN_forward(self, texts) ==
    CallFc(CallSqueeze(CallGlobalMaxPool(
               DPCNN_loop(self, DPCNN_head(self, texts), self.layer)), 2),
           self.out_channels)

\* TextRCNN.forward
TextRCNN_forward(self, texts) ==
    CallFc(CallReduce(CallSame(CallCatStates(
               CallLSTM(self, Save(CallEmbedding(texts)))), "relu"), "max"),
           self.hidden * 2 + self.embedding_len)

\* BERT_Layer.forward: the pooled output of the pretrained transformer
BERT_Layer(texts) ==
    IF ~texts.inVocab THEN Raise("IndexError")
    ELSE IF Len(texts.shape) # 2 \/ texts.shape[2] > BertMaxPos THEN Raise("RuntimeError")
    ELSE Okay(<<texts.shape[1], BertHidden>>)

CallBert(texts) ==
    After(Start(texts), "bert", <<texts.shape, texts.shape>>, BERT_Layer(texts))

\* BERT.forward
BERT_forward(self, texts) == CallFc(CallBert(texts), self.hidden)

\* model(texts): dispatch on the class of the instance
forward(self, texts) ==
    Result(CASE self.cls = "fastText" -> fastText_forward(self, texts)
             [] self.cls = "LSTM" -> LSTM_forward(self, texts)
             [] self.cls = "LSTM_Att" -> LSTM_Att_forward(self, texts)
             [] self.cls = "TextCNN" -> TextCNN_forward(self, texts)
             [] self.cls = "DPCNN" -> DPCNN_forward(self, texts)
             [] self.cls = "TextRCNN" -> TextRCNN_forward(self, texts)
             [] self.cls = "BERT" -> BERT_forward(self, texts))

(* --------------------------- parameter names --------------------------- *)
Digit(k) == <<"0", "1", "2", "3", "4", "5", "6", "7", "8", "9">>[k + 1]

\* `ex in name` of Python strings: ex occurs in name as a substring
Contains(name, ex) ==
    \E i \in 1..(Len(name) - Len(ex) + 1) : SubSeq(name, i, i + Len(ex) - 1) = ex

\* named_parameters() of nn.Linear / nn.Conv* registered as `prefix`
WeightBias(prefix) == <<prefix \o ".weight", prefix \o ".bias">>

\* named_parameters() of a bidirectional nn.LSTM registered as self.lstm
RECURSIVE LSTMNames(_, _)
LSTMNames(k, num_layers) ==
    IF k >= num_layers THEN <<>>
    ELSE << "lstm.weight_ih_l" \o Digit(k), "lstm.weight_hh_l" \o Digit(k),
            "lstm.bias_ih_l" \o Digit(k), "lstm.bias_hh_l" \o Digit(k),
            "lstm.weight_ih_l" \o Digit(k) \o "_reverse",
            "lstm.weight_hh_l" \o Digit(k) \o "_reverse",
            "lstm.bias_ih_l" \o Digit(k) \o "_reverse",
            "lstm.bias_hh_l" \o Digit(k) \o "_reverse" >>
         \o LSTMNames(k + 1, num_layers)

\* named_parameters() of the nn.ModuleList self.convs
RECURSIVE ConvsNames(_, _)
ConvsNames(i, n) ==
    IF i >= n THEN <<>>
    ELSE WeightBias("convs." \o Digit(i)) \o ConvsNames(i + 1, n)

\* named_parameters() of each class, in registration order
ParamNames(cls, cfg) ==
    CASE cls = "fastText" -> WeightBias("fc") \o <<"embedding.weight">>
      [] cls = "LSTM" ->
            LSTMNames(0, cfg.num_layers) \o WeightBias("fc") \o <<"embedding.weight">>
      [] cls = "LSTM_Att" ->
            <<"embedding.weight">> \o LSTMNames(0, cfg.num_layers)
            \o WeightBias("attention.projection.0") \o WeightBias("attention.projection.2")
            \o WeightBias("fc")
      [] cls = "TextCNN" ->
            ConvsNames(0, Len(cfg.kernal_size)) \o WeightBias("fc") \o <<"embedding.weight">>
      [] cls = "DPCNN" ->
            WeightBias("conv_region") \o WeightBias("conv2.1") \o WeightBias("conv2.3")
            \o <<"embedding.weight">> \o WeightBias("fc")
      [] cls = "TextRCNN" ->
            LSTMNames(0, cfg.num_layers) \o WeightBias("fc") \o <<"embedding.weight">>
      [] cls = "BERT" ->
            <<"bert.bert.embeddings.word_embeddings.weight",
              "bert.bert.pooler.dense.weight", "bert.bert.pooler.dense.bias">>
            \o WeightBias("fc")

(* ------------------------- constructor arguments ----------------------- *)
NoCfg == [embedding_len |-> 0, padding_len |-> 0, hidden |-> 0, num_layers |-> 0,
          layer |-> 0, kernal_size |-> <<>>, out_channels |-> 0]

Configs(cls) ==
    CASE cls = "fastText" ->
            {[NoCfg EXCEPT !.embedding_len = e, !.padding_len = p] :
                e \in EmbLens, p \in PadLens}
      [] cls \in {"LSTM", "LSTM_Att", "TextRCNN"} ->
            {[NoCfg EXCEPT !.embedding_len = e, !.hidden = h, !.num_layers = NumLayers] :
                e \in EmbLens, h \in HiddenSet}
      [] cls = "TextCNN" ->
            {[NoCfg EXCEPT !.embedding_len = e, !.kernal_size = ks, !.out_channels = oc] :
                e \in EmbLens, ks \in KernelLists, oc \in ChannelSet}
      [] cls = "DPCNN" ->
            {[NoCfg EXCEPT !.embedding_len = e, !.layer = n, !.out_channels = oc] :
                e \in EmbLens, n \in Layers, oc \in ChannelSet}
      [] cls = "BERT" ->
            {[NoCfg EXCEPT !.hidden = h] : h \in HiddenSet \cup {BertHidden}}

\* the arguments drawn when several models are constructed in one process:
\* what a constructor registers depends on the class, on num_layers and on
\* len(kernal_size) only, so the other arguments take one value each
LifecycleConfigs(cls) ==
    {cfg \in Configs(cls) : /\ cfg.embedding_len \in {0, EmbWidth}
                            /\ cfg.padding_len \in {0, MaxPad}
                            /\ cfg.layer \in {0, MaxLayer}}

Texts == [shape : {<<b, l>> : b \in 1..MaxBatch, l \in 1..MaxLen}, inVocab : BOOLEAN]

(* ------------------------------- state --------------------------------- *)
VARIABLES
    imported,              \* the module body of model.py has run
    loads,                 \* how many times np.load(trimmed_path) has run
    embedding_pretrained,  \* the module-level tensor: the storage it refers to (0: unbound)
    heap,                  \* tensor storages: heap[id] is the content of storage id
    models,                \* the model instances constructed so far
    last                   \* the latest forward call made and what it gave

vars == <<imported, loads, embedding_pretrained, heap, models, last>>

NoTexts == [shape |-> <<>>, inVocab |-> TRUE]
NoCall == [m |-> 0, texts |-> NoTexts, out |-> Result(Start(NoTexts))]

\* torch.tensor(np.load(...)...): a tensor on a storage of its own
LoadedHeap == <<"pretrained">>
LoadedTensor == 1

\* nn.Embedding.from_pretrained(embeddings, freeze=False): the module's weight
\* is Parameter(embeddings), a tensor on the storage of `embeddings` itself.
from_pretrained(embeddings) == embeddings

HasEmbedding(cls) == cls # "BERT"

\* the storages a constructor allocates: one per parameter other than the
\* embedding weight, holding the layer's default initialisation
OwnNames(cls, cfg) == SelectSeq(ParamNames(cls, cfg), LAMBDA n : n # "embedding.weight")
DefaultValue(name) == IF Contains(name, "bert.bert") THEN "bert_pretrained" ELSE "default"

Position(seq, x) == CHOOSE i \in 1..Len(seq) : seq[i] = x

\* cls.__init__(...): the instance, given the heap size before construction
NewModel(cls, cfg, emb, heapLen) ==
    LET own == OwnNames(cls, cfg)
        names == ParamNames(cls, cfg)
    IN [cls |-> cls, embedding_len |-> cfg.embedding_len, padding_len |-> cfg.padding_len,
        hidden |-> cfg.hidden, num_layers |-> cfg.num_layers, layer |-> cfg.layer,
        kernal_size |-> cfg.kernal_size, out_channels |-> cfg.out_channels,
        names |-> names,
        params |-> [n \in {names[i] : i \in 1..Len(names)} |->
                      IF n = "embedding.weight" THEN from_pretrained(emb)
                      ELSE heapLen + Position(own, n)]]

NewHeap(cls, cfg, h) ==
    LET own == OwnNames(cls, cfg)
    IN h \o [i \in 1..Len(own) |-> DefaultValue(own[i])]

(* ----------------------------- init_network ---------------------------- *)
\* variant: the exclude list is ignored
Excluded_none(name, exclude) == FALSE

\* the inner loop of init_network: some string of exclude occurs in name
Excluded(name, exclude) == \E i \in 1..Len(exclude) : Contains(name, exclude[i])

\* what init_network writes into parameter `name` holding value `w`
InitValue(name, w, method, exclude) ==
    IF Excluded(name, exclude) THEN w
    ELSE IF Contains(name, "lstm.weight") THEN "orthogonal"
    ELSE IF Contains(name, "weight")
         THEN (IF method = "xavier" THEN "xavier_normal"
               ELSE IF method = "kaiming" THEN "kaiming_normal" ELSE "normal")
    ELSE IF Contains(name, "bias") THEN "zeros"
    ELSE w

\* init_network(model, method, exclude): the loop over named_parameters(),
\* each parameter initialised in place
RECURSIVE init_network(_, _, _, _, _)
init_network(h, model, i, method, exclude) ==
    IF i > Len(model.names) THEN h
    ELSE LET n == model.names[i]
             id == model.params[n]
         IN init_network([h EXCEPT ![id] = InitValue(n, h[id], method, exclude)],
                         model, i + 1, method, exclude)

\* the exclude list each class's init_weight passes
ExcludeOf(cls) ==
    IF cls = "TextRCNN" THEN <<"embedding", "lstm.weight">> ELSE <<"embedding">>

(* ------------------------------- actions ------------------------------- *)
Init ==
    /\ imported = FALSE
    /\ loads = 0
    /\ embedding_pretrained = 0
    /\ heap = <<>>
    /\ models = <<>>
    /\ last = NoCall

\* Python runs a module's body on its first import only
ModuleBodyRuns == ~imported

\* import model: lines 8-10 run
Import ==
    /\ ModuleBodyRuns
    /\ imported' = TRUE
    /\ loads' = loads + 1
    /\ embedding_pretrained' = LoadedTensor
    /\ heap' = LoadedHeap
    /\ UNCHANGED <<models, last>>

\* variant: every constructor loads the matrix for itself
ConstructorLoads_each(cls) == IF HasEmbedding(cls) THEN 1 ELSE 0

\* np.load(trimmed_path) calls made by cls.__init__: the constructors pass the
\* module-level tensor to from_pretrained and load nothing
ConstructorLoads(cls) == 0

\* cls(embedding_len, ...): the classes exist once the module is imported
Construct(cls, cfg) ==
    /\ imported
    /\ Len(models) < MaxModels
    /\ loads' = loads + ConstructorLoads(cls)
    /\ models' = Append(models, NewModel(cls, cfg, embedding_pretrained, Len(heap)))
    /\ heap' = NewHeap(cls, cfg, heap)
    /\ UNCHANGED <<imported, embedding_pretrained, last>>

\* models[m].init_weight(); BERT defines none
InitWeight(m) ==
    /\ m \in 1..Len(models)
    /\ models[m].cls # "BERT"
    /\ heap' = init_network(heap, models[m], 1, "xavier", ExcludeOf(models[m].cls))
    /\ UNCHANGED <<imported, loads, embedding_pretrained, models, last>>

\* an in-place update of models[m].embedding.weight (freeze=False makes it
\* trainable), as an optimiser step does
UpdateEmbedding(m) ==
    /\ m \in 1..Len(models)
    /\ HasEmbedding(models[m].cls)
    /\ heap' = [heap EXCEPT ![models[m].params["embedding.weight"]] = "updated"]
    /\ UNCHANGED <<imported, loads, embedding_pretrained, models, last>>

\* models[m](texts)
Forward(m, texts) ==
    /\ m \in 1..Len(models)
    /\ last' = [m |-> m, texts |-> texts, out |-> forward(models[m], texts)]
    /\ UNCHANGED <<imported, loads, embedding_pretrained, heap, models>>

Next ==
    \/ Import
    \/ \E cls \in Classes : \E cfg \in LifecycleConfigs(cls) : Construct(cls, cfg)
    \/ \E m \in 1..MaxModels : InitWeight(m)
    \/ \E m \in 1..MaxModels : UpdateEmbedding(m)

Spec == Init /\ [][Next]_vars

\* forward is studied on one model of any class and arguments, constructed
\* after import, with or without init_weight
InitFwd ==
    /\ imported = TRUE
    /\ loads = 1
    /\ embedding_pretrained = LoadedTensor
    /\ \E cls \in Classes : \E cfg \in Configs(cls) :
          LET m == NewModel(cls, cfg, LoadedTensor, Len(LoadedHeap))
              h == NewHeap(cls, cfg, LoadedHeap)
          IN /\ models = <<m>>
             /\ heap \in {h} \cup (IF cls = "BERT" THEN {}
                                   ELSE {init_network(h, m, 1, "xavier", ExcludeOf(cls))})
    /\ last = NoCall

NextFwd == \E m \in 1..MaxModels : \E texts \in Texts : Forward(m, texts)

SpecFwd == InitFwd /\ [][NextFwd]_vars

(* ============================== properties ============================= *)
Called == last.m # 0
Self == models[last.m]
B == last.texts.shape[1]
L == last.texts.shape[2]
Out == last.out
CallNames(out) == [i \in 1..Len(out.calls) |-> out.calls[i].layer]
Adds(out) == SelectSeq(out.calls, LAMBDA c : c.layer = "add")
IsPrefix(a, b) == Len(a) <= Len(b) /\ SubSeq(b, 1, Len(a)) = a

\* the constructor's widths agree with the pretrained tensors
WidthsAgree(self) ==
    IF self.cls = "BERT" THEN self.hidden = BertHidden
    ELSE self.embedding_len = EmbWidth

\* n max_pool(3, 2) stages in a row each receive a length of 3 or more
RECURSIVE PoolsFit(_, _)
PoolsFit(l, n) == n = 0 \/ (l >= 3 /\ PoolsFit(((l - 3) \div 2) + 1, n - 1))

\* the length left after n max_pool(3, 2) stages
RECURSIVE PooledLen(_, _)
PooledLen(l, n) == IF n = 0 THEN l ELSE PooledLen(((l - 3) \div 2) + 1, n - 1)

\* the sequence lengths each class reduces to a single position
LengthFits(self, l) ==
    CASE self.cls = "fastText" -> self.padding_len <= l /\ l < 2 * self.padding_len
      [] self.cls \in {"LSTM", "LSTM_Att", "TextRCNN"} -> TRUE
      [] self.cls = "TextCNN" ->
            \A i \in 1..Len(self.kernal_size) : l >= self.kernal_size[i]
      [] self.cls = "DPCNN" -> PoolsFit(l, self.layer)
      [] self.cls = "BERT" -> l <= BertMaxPos

(* ---- C1 ---- *)
\* C1 as stated: for every class, every B >= 1 and L >= 1, and whatever
\* padding_len, kernal_size and args['layer'] are, forward returns a tensor
\* of shape (B, class_num).
C1_Original ==
    (Called /\ last.texts.inVocab /\ WidthsAgree(Self))
        => (Out.ok /\ Out.x = <<B, ClassNum>>)

\* C1 as amended: with token ids in the vocabulary and widths that agree with
\* the pretrained tensors, forward returns (B, class_num) exactly for the
\* lengths the class can reduce to one position (LengthFits); for every other
\* length it raises, except that fastText returns (B, width, class_num) when
\* floor(L / padding_len) = embedding_len.  Any tensor forward returns keeps
\* the batch dimension first and class_num last.
C1_Amended ==
    (Called /\ last.texts.inVocab /\ WidthsAgree(Self)) =>
        /\ LengthFits(Self, L) => (Out.ok /\ Out.x = <<B, ClassNum>>)
        /\ ~LengthFits(Self, L) =>
              \/ ~Out.ok
              \/ /\ Self.cls = "fastText"
                 /\ L \div Self.padding_len = Self.embedding_len
                 /\ Out.x = <<B, EmbWidth, ClassNum>>
        /\ Out.ok => (Out.x[1] = B /\ Last(Out.x) = ClassNum)

C1_Witness ==
    /\ Called /\ last.texts.inVocab /\ WidthsAgree(Self)
    /\ Self.cls = "DPCNN" /\ Self.layer = 2 /\ L = 7 /\ B = 2
    /\ Out.ok /\ Out.x = <<2, ClassNum>>

(* ---- C6 ---- *)
\* C6 as stated: in fastText.forward, for every input (batch, L), the tensor
\* after self.avg is (batch, embedding, 1), squeeze(2) gives (batch, embedding)
\* and fc gives (batch, class_num).
C6_Original ==
    (Called /\ Self.cls = "fastText" /\ last.texts.inVocab /\ WidthsAgree(Self)) =>
        /\ Len(Out.calls) = 5
        /\ Out.calls[3].layer = "avg" /\ Out.calls[3].out = Okay(<<B, EmbWidth, 1>>)
        /\ Out.calls[4].out = Okay(<<B, EmbWidth>>)
        /\ Out.calls[5].out = Okay(<<B, ClassNum>>)

\* C6 as amended: the above holds for padding_len <= L < 2 * padding_len (in
\* particular for L = padding_len).  For L < padding_len self.avg raises; for
\* L >= 2 * padding_len the tensor after self.avg is
\* (batch, embedding, floor(L / padding_len)) and squeeze(2) leaves it as it is.
C6_Amended ==
    (Called /\ Self.cls = "fastText" /\ last.texts.inVocab) =>
        LET p == Self.padding_len
        IN /\ Len(Out.calls) >= 3 /\ Out.calls[3].layer = "avg"
           /\ (p <= L /\ L < 2 * p) =>
                 /\ Len(Out.calls) = 5
                 /\ Out.calls[3].out = Okay(<<B, EmbWidth, 1>>)
                 /\ Out.calls[4].out = Okay(<<B, EmbWidth>>)
                 /\ WidthsAgree(Self) => Out.calls[5].out = Okay(<<B, ClassNum>>)
           /\ L < p => (Len(Out.calls) = 3 /\ ~Out.calls[3].out.ok /\ ~Out.ok)
           /\ L >= 2 * p =>
                 /\ Len(Out.calls) = 5
                 /\ Out.calls[3].out = Okay(<<B, EmbWidth, L \div p>>)
                 /\ Out.calls[4].out = Okay(<<B, EmbWidth, L \div p>>)

C6_Witness ==
    /\ Called /\ Self.cls = "fastText" /\ last.texts.inVocab /\ WidthsAgree(Self)
    /\ Self.padding_len = 2 /\ L = 3
    /\ Out.calls[3].out = Okay(<<B, EmbWidth, 1>>)
    /\ Out.ok /\ Out.x = <<B, ClassNum>>

(* ---- C7 ---- *)
\* the residual additions made have operands of one shape (bs, oc, l), with
\* l = L at the first and l = floor((l_prev - 3) / 2) + 1 after each max_pool
AddsAligned(self, out, b, l) ==
    \A i \in 1..Len(Adds(out)) :
        LET a == Adds(out)[i]
        IN /\ a.args[1] = <<b, self.out_channels, PooledLen(l, i - 1)>>
           /\ a.args[2] = a.args[1]
           /\ a.out = Okay(a.args[1])

\* C7 as stated: the loop body of DPCNN.forward runs exactly args['layer']
\* times and forward then terminates; the operands of every residual addition
\* have the identical shape (bs, out_channels, l); the final global max pool
\* always leaves (bs, out_channels).
C7_Original ==
    (Called /\ Self.cls = "DPCNN" /\ last.texts.inVocab /\ WidthsAgree(Self)) =>
        /\ Len(Adds(Out)) = Self.layer + 1
        /\ AddsAligned(Self, Out, B, L)
        /\ Out.ok
        /\ Out.calls[Len(Out.calls) - 1].out = Okay(<<B, Self.out_channels>>)

\* C7 as amended: the loop body runs to completion at most args['layer'] times;
\* it runs exactly args['layer'] times, and forward returns, exactly when every
\* max_pool receives a length of 3 or more; otherwise the max_pool that
\* receives a shorter length raises and forward ends there.  Every residual
\* addition made has operands of the identical shape (bs, out_channels, l),
\* and whenever the final global max pool is reached it leaves
\* (bs, out_channels).
C7_Amended ==
    (Called /\ Self.cls = "DPCNN" /\ last.texts.inVocab /\ WidthsAgree(Self)) =>
        LET n == Len(Adds(Out))
            end == Out.calls[Len(Out.calls)]
        IN /\ 1 <= n /\ n <= Self.layer + 1
           /\ AddsAligned(Self, Out, B, L)
           /\ Out.ok <=> PoolsFit(L, Self.layer)
           /\ Out.ok =>
                 /\ n = Self.layer + 1
                 /\ Out.calls[Len(Out.calls) - 1].out = Okay(<<B, Self.out_channels>>)
                 /\ Out.x = <<B, ClassNum>>
           /\ ~Out.ok =>
                 /\ n <= Self.layer
                 /\ end.layer = "max_pool"
                 /\ end.args[1] = <<B, Self.out_channels, PooledLen(L, n - 1)>>
                 /\ PooledLen(L, n - 1) < 3

C7_Witness ==
    /\ Called /\ Self.cls = "DPCNN" /\ last.texts.inVocab /\ WidthsAgree(Self)
    /\ Self.layer = 2 /\ L = 7
    /\ Len(Adds(Out)) = 3
    /\ Adds(Out)[3].args = <<(<<B, Self.out_channels, 1>>), (<<B, Self.out_channels, 1>>)>>
    /\ Out.ok

(* ---- C4 ---- *)
RECURSIVE Repeat(_, _)
Repeat(seq, n) == IF n <= 0 THEN <<>> ELSE seq \o Repeat(seq, n - 1)

\* the composition each forward is written as, from the instance's attributes
LayerSeq(self) ==
    CASE self.cls = "fastText" -> <<"embedding", "transpose", "avg", "squeeze", "fc">>
      [] self.cls = "LSTM" -> <<"embedding", "lstm", "select_last", "fc">>
      [] self.cls = "LSTM_Att" -> <<"embedding", "lstm", "attention", "sum", "fc">>
      [] self.cls = "TextCNN" ->
            <<"embedding", "unsqueeze">>
            \o Repeat(<<"conv", "squeeze", "max_pool1d", "squeeze">>, Len(self.kernal_size))
            \o <<"cat", "dropout", "fc">>
      [] self.cls = "DPCNN" ->
            <<"embedding", "unsqueeze", "conv_region", "squeeze", "conv2", "add">>
            \o Repeat(<<"max_pool", "conv2", "add">>, self.layer)
            \o <<"max_pool1d", "squeeze", "fc">>
      [] self.cls = "TextRCNN" -> <<"embedding", "lstm", "cat", "relu", "max", "fc">>
      [] self.cls = "BERT" -> <<"bert", "fc">>

\* a forward step leaves the parameters, the shared matrix and the attributes
ForwardFrame ==
    last' # last =>
        /\ heap' = heap
        /\ models' = models
        /\ embedding_pretrained' = embedding_pretrained
        /\ loads' = loads

\* C4 as stated: the sequence of layer calls forward executes is the same on
\* every invocation and does not depend on the input.
C4_Original ==
    (Called /\ last.texts.inVocab /\ WidthsAgree(Self))
        => CallNames(Out) = LayerSeq(Self)

\* C4 as amended: every forward call that returns has executed the same
\* sequence of layer calls, fixed by the instance's attributes; a call that
\* raises has executed a prefix of it, ending with the call that raised.  Any
\* forward call leaves every parameter, the shared embedding matrix and every
\* attribute unchanged, and what a call gives for an input is what a call on
\* the instance gives for it at any later time.
C4_Amended ==
    /\ [](Called =>
            /\ IsPrefix(CallNames(Out), LayerSeq(Self))
            /\ Out.ok => CallNames(Out) = LayerSeq(Self)
            /\ \A i \in 1..Len(Out.calls) :
                  Out.calls[i].out.ok <=> (i < Len(Out.calls) \/ Out.ok)
            /\ Out = forward(Self, last.texts))
    /\ [][ForwardFrame]_vars

C4_Witness ==
    /\ Called /\ Self.cls = "TextCNN" /\ B = 1
    /\ Self.kernal_size = <<2, 3>> /\ L = 3
    /\ Out.ok /\ Len(Out.calls) = 13

EmbeddingOf(m) == models[m].params["embedding.weight"]

\* C2 as stated: an in-place update of one model's embedding weight leaves the
\* embedding weight of every other model and the module-level
\* embedding_pretrained matrix unchanged.
C2_Original ==
    [][\A m \in 1..Len(models) :
          UpdateEmbedding(m) =>
              /\ heap'[embedding_pretrained] = heap[embedding_pretrained]
              /\ \A j \in 1..Len(models) :
                    (j # m /\ HasEmbedding(models[j].cls))
                        => heap'[EmbeddingOf(j)] = heap[EmbeddingOf(j)]]_vars

(* ---- C3 ---- *)
\* C3: the pretrained matrix is loaded exactly once, at import and before any
\* model is constructed; constructing models performs no further load.
C3_LoadedOnce ==
    /\ loads = (IF imported THEN 1 ELSE 0)
    /\ models # <<>> => (imported /\ loads = 1)

C3_Witness ==
    /\ Len(models) = MaxModels
    /\ models[1].cls = "TextCNN" /\ models[2].cls = "fastText"
    /\ loads = 1

(* ---- C8 ---- *)
\* what an init_weight step of models[m] must leave and must set
InitWeightKeeps(m) ==
    LET self == models[m]
        ex == ExcludeOf(self.cls)
    IN /\ \A i \in 1..Len(self.names) :
             (\E k \in 1..Len(ex) : Contains(self.names[i], ex[k]))
                 => heap'[self.params[self.names[i]]] = heap[self.params[self.names[i]]]
       /\ heap'[EmbeddingOf(m)] = heap[EmbeddingOf(m)]
       /\ heap'[embedding_pretrained] = heap[embedding_pretrained]
       /\ self.cls = "TextRCNN" =>
             \A i \in 1..Len(self.names) :
                 LET n == self.names[i]
                 IN /\ Contains(n, "lstm.weight") => heap'[self.params[n]] = heap[self.params[n]]
                    /\ (Contains(n, "lstm.bias") \/ n = "fc.bias")
                          => heap'[self.params[n]] = "zeros"

\* C8: init_weight leaves unchanged every parameter whose name contains a
\* string of its exclude list: the embedding weights for every class, and for
\* TextRCNN also every LSTM weight matrix, while TextRCNN's LSTM biases and fc
\* bias are set to 0.  No init_weight ever writes the shared embedding storage.
\* (An init_weight step changes heap alone; one that changes nothing is a
\* stuttering step, which an action property does not constrain.)
C8_InitKeepsExcluded ==
    /\ [](\A m \in 1..Len(models) :
            HasEmbedding(models[m].cls)
                => /\ EmbeddingOf(m) = embedding_pretrained
                   /\ heap[EmbeddingOf(m)] \in {"pretrained", "updated"})
    /\ [][\A m \in 1..Len(models) :
              (models' = models /\ heap' # heap /\ InitWeight(m)) => InitWeightKeeps(m)]_vars

C8_Witness ==
    \E m \in 1..Len(models) :
        /\ models[m].cls = "TextRCNN"
        /\ heap[models[m].params["fc.bias"]] = "zeros"
        /\ heap[models[m].params["fc.weight"]] = "xavier_normal"
        /\ heap[models[m].params["lstm.bias_hh_l0_reverse"]] = "zeros"
        /\ heap[models[m].params["lstm.weight_ih_l0"]] = "default"
        /\ heap[EmbeddingOf(m)] = "pretrained"

====
